---------------------------- MODULE Spec2Model ----------------------------
(***************************************************************************)
(* Movie-Recommender-System: the collaborative-filtering script            *)
(* (scripts/collab_filter_rec.py) and the content-based recommender        *)
(* (scripts/content_based_rec.py) over the movies database.                *)
(*                                                                         *)
(* A row of the rating table is <<user_id, mov_id, rat_score>>; the table  *)
(* is the sequence of its rows in rowid order.  Scores are integers;       *)
(* quotients (cosine similarity, the normalised preference vector) are     *)
(* kept exact as numerator/denominator pairs.                              *)
(***************************************************************************)
EXTENDS Integers, Sequences, FiniteSets

VARIABLES
    rating,             \* table rating: sequence of <<user_id, mov_id, rat_score>>
    user_id,            \* the query user (command line / test argument)
    cf_type,            \* "user" | "item" (--type)
    pc,                 \* position of the running script
    outcome,            \* how the script ended: exception name or printed result
    user_item_matrix,   \* [user -> [movie -> score]] after pivot(...).fillna(0)
    user_rated_movies,  \* set of movies the query user rated (as the script computes it)
    rated_movies,       \* item mode: list of the query user's rated movies, column order
    rated_idx,          \* item mode: position of rated_movie in rated_movies
    visited,            \* candidates the running for loop has visited so far
    recommended_movies, \* the result set
    \* content_based_rec.py
    movie_genre,            \* table movie_genre: set of <<mov_id, gen_id>>
    user_recommendations,   \* table user_recommendations: set of <<user_id, mov_id, rec_score>>
    calls,                  \* calls of test() made so far by main()
    movie_ids,              \* get_user_data_from_db: ids of the user's rated movies
    user_ratings,           \* the user's scores, same order
    genre_matrix,           \* rows: rated movies, columns: genres, entries 0/1
    user_preference,        \* [num |-> per genre, den |-> common denominator]
    cache_hit,              \* generate_recommendation found stored rows
    recommendation_probs,   \* the vector generate_recommendation returns
    top_movie_indices,      \* test(): positions of the (up to) 5 highest scores
    unrated_movie_ids,      \* test(): the candidate list the positions select from
    top_movie_ids,          \* test(): the candidates at those positions
    top_movie_titles,       \* what test() returns (movies stand for their titles)
    con_open,               \* the sqlite3 connection con has not been closed
    num_movies_idx          \* stress_test(): position in num_movies_list, 0 outside it

shared == <<rating, user_id, pc, outcome>>

cfvars == <<cf_type, user_item_matrix, user_rated_movies, rated_movies,
            rated_idx, visited, recommended_movies>>

cbvars == <<movie_genre, user_recommendations, calls, movie_ids, user_ratings,
            genre_matrix, user_preference, cache_hit, recommendation_probs,
            top_movie_indices, unrated_movie_ids, top_movie_ids, top_movie_titles>>

stvars == <<con_open, num_movies_idx>>

vars == <<shared, cfvars, cbvars, stvars>>

(* the connection is open and stress_test() is not running *)
StressIdle ==
    /\ con_open = TRUE
    /\ num_movies_idx = 0

-----------------------------------------------------------------------------
(* Bounds of the explored inputs *)

MaxRows == 3
NumUsers == 3
MaxScore == 1
BulkItems == 7
NumMovies == 2
NumGenres == 2
MaxRated == 2
MaxCalls == 2
OverRange == 1
LargeScore == 710

(* Program constant: "Limit recommendations to 5 movies" *)
TopN == 5

-----------------------------------------------------------------------------
(* Generic helpers *)

Range(s) == {s[i] : i \in 1..Len(s)}

RECURSIVE SumOver(_, _)
SumOver(S, f) ==
    IF S = {} THEN 0
    ELSE LET x == CHOOSE y \in S : TRUE
         IN  f[x] + SumOver(S \ {x}, f)

RECURSIVE SortedSeq(_)
SortedSeq(S) ==
    IF S = {} THEN <<>>
    ELSE LET m == CHOOSE x \in S : \A y \in S : x <= y
         IN  <<m>> \o SortedSeq(S \ {m})

-----------------------------------------------------------------------------
(* Rating tables explored *)

Users == 1..NumUsers
Items == {1, 2}
Scores == 0..MaxScore

RowLess(r, s) ==
    \/ r[1] < s[1]
    \/ r[1] = s[1] /\ r[2] < s[2]
    \/ r[1] = s[1] /\ r[2] = s[2] /\ r[3] < s[3]

(* the tables of at most k rows, rows in strictly increasing order *)
RECURSIVE SmallTables(_)
SmallTables(k) ==
    IF k = 0 THEN {<<>>}
    ELSE LET prev == SmallTables(k - 1)
             full == {p \in prev : Len(p) = k - 1}
         IN  prev \cup
             UNION {{Append(t, r) : r \in {x \in Users \X Items \X Scores :
                                               k = 1 \/ RowLess(t[k - 1], x)}} :
                    t \in full}

(* one user rating every movie 1..k with one score, as the data loader does *)
BulkRows(u, k, s) == [i \in 1..k |-> <<u, i, s>>]

BulkProfiles(u) == {BulkRows(u, k, s) : k \in 0..BulkItems, s \in Scores}

BulkTables == {p \o q : p \in BulkProfiles(1), q \in BulkProfiles(2)}

(* the tables with at most MaxRows rows, and the bulk ones *)
RatingTables == SmallTables(MaxRows) \cup BulkTables

-----------------------------------------------------------------------------
(* collab_filter_rec.py *)

RowUsers(t) == {t[i][1] : i \in 1..Len(t)}
RowItems(t) == {t[i][2] : i \in 1..Len(t)}

(* DataFrame.pivot raises ValueError when an (index, column) pair repeats *)
HasDuplicatePair(t) ==
    \E i, j \in 1..Len(t) : i # j /\ t[i][1] = t[j][1] /\ t[i][2] = t[j][2]

(* a pivot that takes its values from the wrong column (mov_id) *)
PivotWrongValues(t) ==
    [u \in RowUsers(t) |->
        [m \in RowItems(t) |->
            IF \E i \in 1..Len(t) : t[i][1] = u /\ t[i][2] = m THEN m ELSE 0]]

(* ratings_df.pivot(index='user_id', columns='mov_id', values='rat_score').fillna(0) *)
Pivot(t) ==
    [u \in RowUsers(t) |->
        [m \in RowItems(t) |->
            IF \E i \in 1..Len(t) : t[i][1] = u /\ t[i][2] = m
            THEN (t[CHOOSE i \in 1..Len(t) : t[i][1] = u /\ t[i][2] = m])[3]
            ELSE 0]]

Index(M) == DOMAIN M
Columns(M) == UNION {DOMAIN M[u] : u \in DOMAIN M}

Dot(x, y) == SumOver(DOMAIN x, [k \in DOMAIN x |-> x[k] * y[k]])

(* sklearn cosine_similarity: rows are L2-normalised, a zero norm is replaced by 1, *)
(* so the similarity with a zero vector is 0.  Kept as the square, num / den.       *)
CosSim2(x, y) ==
    LET nx == Dot(x, x)
        ny == Dot(y, y)
    IN  IF nx = 0 \/ ny = 0 THEN <<0, 1>>
        ELSE <<Dot(x, y) * Dot(x, y), nx * ny>>

(* s <= t for two squared similarities (scores are >= 0, so are the similarities) *)
SimLeq(s, t) == s[1] * t[2] <= t[1] * s[2]

user_similarity(M, a, b) == CosSim2(M[a], M[b])

ItemColumn(M, m) == [u \in Index(M) |-> M[u][m]]
item_similarity(M, a, b) == CosSim2(ItemColumn(M, a), ItemColumn(M, b))

(* user_item_matrix.columns[user_item_matrix.loc[u] > 0] *)
PositiveColumns(M, u) == {m \in Columns(M) : M[u][m] > 0}

(* the same sort with ascending=True, the default of sort_values *)
NextInAscending(key, done) ==
    {c \in DOMAIN key \ done :
        \A d \in DOMAIN key \ done : SimLeq(key[c], key[d])}

(* sort_values(ascending=False) on the column `key` of a similarity frame: the *)
(* candidates that may come next in the sorted list after those already taken;  *)
(* equal keys come in whatever order the sort leaves them                       *)
NextInDescending(key, done) ==
    {c \in DOMAIN key \ done :
        \A d \in DOMAIN key \ done : SimLeq(key[d], key[c])}

(* user_similarity_df[user_id] / item_similarity_df[rated_movie] *)
UserSimColumn(M, q) == [u \in Index(M) |-> user_similarity(M, q, u)]
ItemSimColumn(M, r) == [m \in Columns(M) |-> item_similarity(M, r, m)]

(* the cutoff tested with > instead of >= *)
CutoffOffByOne(rec) == Cardinality(rec) > TopN

CutoffReached(rec) == Cardinality(rec) >= TopN

(* lines 44-52: read the rating table and pivot it *)
LoadRatings ==
    /\ pc = "load"
    /\ IF HasDuplicatePair(rating)
       THEN /\ outcome' = "ValueError_pivot"
            /\ pc' = "done"
            /\ UNCHANGED user_item_matrix
       ELSE /\ user_item_matrix' = Pivot(rating)
            /\ pc' = cf_type
            /\ UNCHANGED outcome
    /\ UNCHANGED <<rating, user_id, cf_type, user_rated_movies, rated_movies,
                   rated_idx, visited, recommended_movies>>
    /\ UNCHANGED cbvars
    /\ UNCHANGED stvars

(* cosine_similarity rejects a matrix with no rows (ValueError, lines 62 and 97); *)
(* looking up an absent user raises KeyError (lines 68 and 103)                   *)
SetupFailure(M) == IF Index(M) = {} THEN "ValueError_cosine" ELSE "KeyError"

(* lines 57-75: similarity frame, sorted neighbours, the user's rated set *)
UserSetup ==
    /\ pc = "user"
    /\ IF Index(user_item_matrix) = {} \/ user_id \notin Index(user_item_matrix)
       THEN /\ outcome' = SetupFailure(user_item_matrix)
            /\ pc' = "done"
            /\ UNCHANGED <<user_rated_movies, recommended_movies, visited>>
       ELSE /\ user_rated_movies' = PositiveColumns(user_item_matrix, user_id)
            /\ recommended_movies' = {}
            /\ visited' = {}
            /\ pc' = "user_loop"
            /\ UNCHANGED outcome
    /\ UNCHANGED <<rating, user_id, cf_type, user_item_matrix, rated_movies, rated_idx>>
    /\ UNCHANGED cbvars
    /\ UNCHANGED stvars

(* the union a visited neighbour contributes, line 81 *)
unrated_movies(M, similar_user, rated) == PositiveColumns(M, similar_user) \ rated

(* lines 77-85: one iteration of `for similar_user in similar_users` *)
UserLoopStep ==
    /\ pc = "user_loop"
    /\ \E similar_user \in NextInDescending(UserSimColumn(user_item_matrix, user_id),
                                            visited) :
        LET rec == IF similar_user = user_id
                   THEN recommended_movies
                   ELSE recommended_movies \cup
                        unrated_movies(user_item_matrix, similar_user, user_rated_movies)
            brk == similar_user # user_id /\ CutoffReached(rec)
            last == visited \cup {similar_user} = Index(user_item_matrix)
        IN  /\ visited' = visited \cup {similar_user}
            /\ recommended_movies' = rec
            /\ pc' = IF brk \/ last THEN "display" ELSE "user_loop"
    /\ UNCHANGED <<rating, user_id, cf_type, outcome, user_item_matrix,
                   user_rated_movies, rated_movies, rated_idx>>
    /\ UNCHANGED cbvars
    /\ UNCHANGED stvars

(* lines 89-107: item similarity frame and the user's rated list *)
ItemSetup ==
    /\ pc = "item"
    /\ IF Index(user_item_matrix) = {} \/ user_id \notin Index(user_item_matrix)
       THEN /\ outcome' = SetupFailure(user_item_matrix)
            /\ pc' = "done"
            /\ UNCHANGED <<rated_movies, rated_idx, recommended_movies, visited>>
       ELSE LET rated == SortedSeq(PositiveColumns(user_item_matrix, user_id))
            IN  /\ rated_movies' = rated
                /\ rated_idx' = 1
                /\ recommended_movies' = {}
                /\ visited' = {}
                /\ pc' = IF rated = <<>> THEN "display" ELSE "item_loop"
                /\ UNCHANGED outcome
    /\ UNCHANGED <<rating, user_id, cf_type, user_item_matrix, user_rated_movies>>
    /\ UNCHANGED cbvars
    /\ UNCHANGED stvars

(* lines 112-118: one iteration of `for movie in similar_movies`, with the *)
(* bookkeeping of the enclosing `for rated_movie in rated_movies`          *)
ItemLoopStep ==
    /\ pc = "item_loop"
    /\ \E movie \in NextInDescending(
                        ItemSimColumn(user_item_matrix, rated_movies[rated_idx]),
                        visited) :
        LET rec == IF movie \notin Range(rated_movies)
                   THEN recommended_movies \cup {movie}
                   ELSE recommended_movies
            inner_done == visited \cup {movie} = Columns(user_item_matrix)
            outer_done == rated_idx = Len(rated_movies)
        IN  /\ recommended_movies' = rec
            /\ IF CutoffReached(rec) \/ ~inner_done \/ outer_done
               THEN /\ visited' = visited \cup {movie}
                    /\ UNCHANGED rated_idx
               ELSE /\ visited' = {}
                    /\ rated_idx' = rated_idx + 1
            /\ pc' = IF CutoffReached(rec) \/ (inner_done /\ outer_done)
                     THEN "display" ELSE "item_loop"
    /\ UNCHANGED <<rating, user_id, cf_type, outcome, user_item_matrix,
                   user_rated_movies, rated_movies>>
    /\ UNCHANGED cbvars
    /\ UNCHANGED stvars

(* lines 124-135: print the titles, or "No recommendations available" *)
Display ==
    /\ pc = "display"
    /\ outcome' = IF recommended_movies # {} THEN "recommended" ELSE "no_recommendations"
    /\ pc' = "done"
    /\ UNCHANGED <<rating, user_id, cf_type, user_item_matrix, user_rated_movies,
                   rated_movies, rated_idx, visited,
                   recommended_movies>>
    /\ UNCHANGED cbvars
    /\ UNCHANGED stvars

QueryUsers == 1..NumUsers

(* the content-based recommender is not running *)
CBIdle ==
    /\ movie_genre = {}
    /\ user_recommendations = {}
    /\ calls = 0
    /\ movie_ids = <<>>
    /\ user_ratings = <<>>
    /\ genre_matrix = <<>>
    /\ user_preference = [num |-> <<>>, den |-> 1]
    /\ cache_hit = FALSE
    /\ recommendation_probs = <<>>
    /\ top_movie_indices = <<>>
    /\ unrated_movie_ids = <<>>
    /\ top_movie_ids = <<>>
    /\ top_movie_titles = <<>>

InitCF ==
    /\ rating \in RatingTables
    /\ user_id \in QueryUsers
    /\ cf_type \in {"user", "item"}
    /\ pc = "load"
    /\ outcome = "running"
    /\ user_item_matrix = <<>>
    /\ user_rated_movies = {}
    /\ rated_movies = <<>>
    /\ rated_idx = 0
    /\ visited = {}
    /\ recommended_movies = {}
    /\ CBIdle
    /\ StressIdle

NextCF ==
    \/ LoadRatings
    \/ UserSetup
    \/ UserLoopStep
    \/ ItemSetup
    \/ ItemLoopStep
    \/ Display

SpecCF == InitCF /\ [][NextCF]_vars

-----------------------------------------------------------------------------
(* content_based_rec.py *)

(* np.clip(user_ratings, 0, 5), line 109 *)
ClipLo == 0
ClipHi == 5
clip(x) == IF x < ClipLo THEN ClipLo ELSE IF x > ClipHi THEN ClipHi ELSE x

(* tables movie and genre, in rowid order *)
MovieTable == [i \in 1..NumMovies |-> i]
GenreTable == [i \in 1..NumGenres |-> i]
Movies == Range(MovieTable)
Genres == Range(GenreTable)

(* genre_dict = {gen_id: index}, lines 71 and 192 *)
genre_dict(g) == CHOOSE j \in 1..Len(GenreTable) : GenreTable[j] = g

SumSeq(v) == SumOver(DOMAIN v, v)

(* np.dot(user_ratings, genre_matrix): one entry per genre *)
VecMat(v, G) ==
    [j \in 1..Len(GenreTable) |-> SumSeq([i \in 1..Len(v) |-> v[i] * G[i][j]])]

(* np.dot(genre_matrix, user_preference): one entry per row *)
MatVec(G, w) ==
    [i \in 1..Len(G) |-> SumSeq([j \in 1..Len(w) |-> G[i][j] * w[j]])]

ZeroVector == [j \in 1..Len(GenreTable) |-> 0]

(* the function without its rating_sum > 0 test: always divides *)
calculate_user_preference_unguarded(ratings, G) ==
    LET clipped == [i \in 1..Len(ratings) |-> clip(ratings[i])]
    IN  [num |-> VecMat(clipped, G), den |-> SumSeq(clipped)]

(* the function without np.clip *)
calculate_user_preference_unclipped(ratings, G) ==
    IF SumSeq(ratings) > 0
    THEN [num |-> VecMat(ratings, G), den |-> SumSeq(ratings)]
    ELSE [num |-> ZeroVector, den |-> 1]

(* lines 97-121; the quotient user_preference / rating_sum is kept as num / den *)
calculate_user_preference(ratings, G) ==
    LET clipped == [i \in 1..Len(ratings) |-> clip(ratings[i])]
        preference == VecMat(clipped, G)
        rating_sum == SumSeq(clipped)
    IN  IF rating_sum > 0
        THEN [num |-> preference, den |-> rating_sum]
        ELSE [num |-> ZeroVector, den |-> 1]

(* rows of a table that satisfy a test, in table order *)
RECURSIVE Filter(_, _)
Filter(t, keep) ==
    IF t = <<>> THEN <<>>
    ELSE (IF Head(t) \in keep THEN <<Head(t)>> ELSE <<>>) \o Filter(Tail(t), keep)

(* SELECT mov_id, rat_score FROM rating WHERE user_id = ?, lines 53-59 *)
UserRows(t, u) == Filter(t, {r \in Range(t) : r[1] = u})

(* movie_ids.index(mov_id): the first position of the movie *)
FirstIndex(ids, m) ==
    CHOOSE i \in 1..Len(ids) : ids[i] = m /\ \A k \in 1..(i - 1) : ids[k] # m

(* lines 74-91: the binary movie x genre matrix of the rated movies *)
GenreMatrix(ids, mg) ==
    [i \in 1..Len(ids) |->
        [j \in 1..Len(GenreTable) |->
            IF \E p \in mg : /\ p[1] = ids[i]
                             /\ FirstIndex(ids, p[1]) = i
                             /\ genre_dict(p[2]) = j
            THEN 1 ELSE 0]]

Injective(f) == \A a, b \in DOMAIN f : a # b => f[a] # f[b]
Perms(n) == {f \in [1..n -> 1..n] : Injective(f)}
Prefix(s, n) == IF Len(s) <= n THEN s ELSE SubSeq(s, 1, n)

(* a <= b for exact quotients <<num, den>> with den > 0 *)
FracLeq(a, b) == a[1] * b[2] <= b[1] * a[2]

(* ORDER BY rec_score DESC LIMIT 5 over the user's stored rows, line 149 *)
StoredFor(table, u) == {e \in table : e[1] = u}

(* a lookup that never finds a stored row *)
CacheLookupBypassed(table, u) == {<<>>}

CacheLookup(table, u) ==
    LET S == StoredFor(table, u)
        n == Cardinality(S)
    IN  {Prefix(q, TopN) :
            q \in {q \in [1..n -> S] : /\ Injective(q)
                                      /\ \A i \in 1..(n - 1) : q[i][3] >= q[i + 1][3]}}

(* the softmax of lines 158-159, exact: entry i is exp(arg) / sum of exp over *)
(* `over`; exp is increasing, so entries of one vector compare as their args  *)
Softmax(vec, den) ==
    [i \in 1..Len(vec) |->
        [arg |-> <<vec[i], den>>, over |-> [k \in 1..Len(vec) |-> <<vec[k], den>>]]]

(* np.exp on float64, line 158: inf for an argument above 709.782, 0 below *)
(* -745.133 (thresholds in thousandths), a positive finite number between  *)
ExpOverflowMilli == 709782
ExpUnderflowMilli == 745133
Exp(q) ==
    IF q[1] * 1000 > ExpOverflowMilli * q[2] THEN "inf"
    ELSE IF q[1] * 1000 < (0 - ExpUnderflowMilli) * q[2] THEN "zero"
    ELSE "finite"

(* np.sum(exp_scores), line 159 *)
ExpSum(over) ==
    IF \E k \in DOMAIN over : Exp(over[k]) = "inf" THEN "inf"
    ELSE IF \A k \in DOMAIN over : Exp(over[k]) = "zero" THEN "zero"
    ELSE "finite"

(* exp_scores / np.sum(exp_scores), line 159, for one entry: inf / inf and *)
(* 0 / 0 are nan, a finite number over inf is 0                            *)
Quotient(e) ==
    IF (Exp(e.arg) = "inf" /\ ExpSum(e.over) = "inf") \/ ExpSum(e.over) = "zero"
    THEN "nan"
    ELSE IF ExpSum(e.over) = "inf" \/ Exp(e.arg) = "zero" THEN "zero"
    ELSE "finite"

(* a number read back from the table, as an entry of the returned vector *)
Plain(x) == [arg |-> <<x, 1>>, over |-> <<>>]

(* executemany("INSERT OR REPLACE ...", rows): primary key (user_id, mov_id) *)
InsertOrReplace(table, rows) ==
    {e \in table : ~\E r \in Range(rows) : r[1] = e[1] /\ r[2] = e[2]} \cup Range(rows)

(* recommendation_probs.argsort()[::-1][:5], line 231: positions by falling *)
(* score, equal scores in the order the sort leaves them                    *)
ArgsortTop(probs) ==
    {Prefix(f, TopN) :
        f \in {f \in Perms(Len(probs)) :
                  \A i \in 1..(Len(probs) - 1) :
                      FracLeq(probs[f[i + 1]].arg, probs[f[i]].arg)}}

(* main(), lines 350-362: the next call of test(con, user) *)
StartTest ==
    /\ pc = "idle"
    /\ calls < MaxCalls
    /\ calls' = calls + 1
    /\ user_id' \in 1..NumUsers
    /\ pc' = "get_data"
    /\ movie_ids' = <<>>
    /\ user_ratings' = <<>>
    /\ genre_matrix' = <<>>
    /\ user_preference' = [num |-> <<>>, den |-> 1]
    /\ cache_hit' = FALSE
    /\ recommendation_probs' = <<>>
    /\ top_movie_indices' = <<>>
    /\ unrated_movie_ids' = <<>>
    /\ top_movie_ids' = <<>>
    /\ top_movie_titles' = <<>>
    /\ UNCHANGED <<rating, outcome, movie_genre, user_recommendations>>
    /\ UNCHANGED cfvars
    /\ UNCHANGED stvars

(* get_user_data_from_db, lines 38-94 *)
GetUserData ==
    /\ pc = "get_data"
    /\ LET rows == UserRows(rating, user_id)
           ids == [i \in 1..Len(rows) |-> rows[i][2]]
       IN  /\ movie_ids' = ids
           /\ user_ratings' = [i \in 1..Len(rows) |-> rows[i][3]]
           /\ genre_matrix' = GenreMatrix(ids, movie_genre)
    /\ pc' = "pref"
    /\ UNCHANGED <<rating, user_id, outcome, movie_genre, user_recommendations, calls,
                   user_preference, cache_hit, recommendation_probs,
                   top_movie_indices, unrated_movie_ids, top_movie_ids,
                   top_movie_titles>>
    /\ UNCHANGED cfvars
    /\ UNCHANGED stvars

(* calculate_user_preference, lines 97-121 *)
CalcPreference ==
    /\ pc = "pref"
    /\ user_preference' = calculate_user_preference(user_ratings, genre_matrix)
    /\ pc' = "generate"
    /\ UNCHANGED <<rating, user_id, outcome, movie_genre, user_recommendations, calls,
                   movie_ids, user_ratings, genre_matrix, cache_hit,
                   recommendation_probs, top_movie_indices, unrated_movie_ids,
                   top_movie_ids, top_movie_titles>>
    /\ UNCHANGED cfvars
    /\ UNCHANGED stvars

(* generate_recommendation, lines 124-168 *)
GenerateRecommendation ==
    /\ pc = "generate"
    /\ \E recommendations \in CacheLookup(user_recommendations, user_id) :
          IF recommendations = <<>>
          THEN /\ cache_hit' = FALSE
               /\ recommendation_probs' =
                      Softmax(MatVec(genre_matrix, user_preference.num),
                              user_preference.den)
               /\ user_recommendations' =
                      InsertOrReplace(user_recommendations, recommendations)
          ELSE /\ cache_hit' = TRUE
               /\ recommendation_probs' =
                      [i \in 1..Len(recommendations) |-> Plain(recommendations[i][2])]
               /\ UNCHANGED user_recommendations
    /\ pc' = "select"
    /\ UNCHANGED <<rating, user_id, outcome, movie_genre, calls, movie_ids,
                   user_ratings, genre_matrix, user_preference, top_movie_indices,
                   unrated_movie_ids, top_movie_ids, top_movie_titles>>
    /\ UNCHANGED cfvars
    /\ UNCHANGED stvars

(* test(), lines 231-243: top positions, candidate list, id lookup, titles *)
SelectTop ==
    /\ pc = "select"
    /\ \E top \in ArgsortTop(recommendation_probs) :
          LET unrated == Filter(MovieTable, Movies \ Range(user_ratings))
          IN  /\ top_movie_indices' = top
              /\ unrated_movie_ids' = unrated
              /\ IF \E k \in 1..Len(top) : top[k] > Len(unrated)
                 THEN /\ outcome' = "IndexError"
                      /\ pc' = "done"
                      /\ UNCHANGED <<top_movie_ids, top_movie_titles>>
                 ELSE LET ids == [k \in 1..Len(top) |-> unrated[top[k]]]
                      IN  /\ top_movie_ids' = ids
                          /\ top_movie_titles' = Filter(MovieTable, Range(ids))
                          /\ pc' = "idle"
                          /\ UNCHANGED outcome
    /\ UNCHANGED <<rating, user_id, movie_genre, user_recommendations, calls,
                   movie_ids, user_ratings, genre_matrix, user_preference,
                   cache_hit, recommendation_probs>>
    /\ UNCHANGED cfvars
    /\ UNCHANGED stvars

(* main(), lines 373-384: all calls made, the connection is closed *)
CloseConnection ==
    /\ pc = "idle"
    /\ calls = MaxCalls
    /\ outcome' = "closed"
    /\ pc' = "done"
    /\ con_open' = FALSE
    /\ UNCHANGED <<rating, user_id, cbvars>>
    /\ UNCHANGED cfvars
    /\ UNCHANGED num_movies_idx

CFIdle ==
    /\ cf_type = "none"
    /\ user_item_matrix = <<>>
    /\ user_rated_movies = {}
    /\ rated_movies = <<>>
    /\ rated_idx = 0
    /\ visited = {}
    /\ recommended_movies = {}

(* databases explored: at most MaxRated rating rows, no (user, movie) pair twice *)
CBRows == (1..2) \X Movies \X (0..NumMovies)
RECURSIVE CBTables(_)
CBTables(k) ==
    IF k = 0 THEN {<<>>}
    ELSE LET prev == CBTables(k - 1)
         IN  prev \cup
             {Append(t, r) : t \in {p \in prev : Len(p) = k - 1},
                             r \in CBRows}

StoredRows == {<<1, 2, 1>>, <<1, 1, 2>>}

InitCB ==
    /\ rating \in {t \in CBTables(MaxRated) : ~HasDuplicatePair(t)}
    /\ movie_genre \in SUBSET (Movies \X Genres)
    /\ user_recommendations \in SUBSET StoredRows
    /\ user_id = 0
    /\ pc = "idle"
    /\ outcome = "running"
    /\ calls = 0
    /\ movie_ids = <<>>
    /\ user_ratings = <<>>
    /\ genre_matrix = <<>>
    /\ user_preference = [num |-> <<>>, den |-> 1]
    /\ cache_hit = FALSE
    /\ recommendation_probs = <<>>
    /\ top_movie_indices = <<>>
    /\ unrated_movie_ids = <<>>
    /\ top_movie_ids = <<>>
    /\ top_movie_titles = <<>>
    /\ CFIdle
    /\ StressIdle

NextCB ==
    \/ StartTest
    \/ GetUserData
    \/ CalcPreference
    \/ GenerateRecommendation
    \/ SelectTop
    \/ CloseConnection

SpecCB == InitCB /\ [][NextCB]_vars

(* the rating table between two calls of test(): one row inserted, or the     *)
(* score of one row changed (the INSERT INTO rating of data_loader.py)        *)
ChangeRatings ==
    /\ pc = "idle"
    /\ calls >= 1
    /\ calls < MaxCalls
    /\ \E r \in CBRows :
          LET same == {i \in 1..Len(rating) :
                          rating[i][1] = r[1] /\ rating[i][2] = r[2]}
          IN  /\ rating' = IF same = {} THEN Append(rating, r)
                           ELSE [rating EXCEPT ![CHOOSE i \in same : TRUE] = r]
              /\ rating' # rating
              /\ Len(rating') <= MaxRated
    /\ UNCHANGED <<user_id, pc, outcome, cbvars>>
    /\ UNCHANGED cfvars
    /\ UNCHANGED stvars

(* the same runs, started from at most one rating row, with the ratings *)
(* changing between the calls                                            *)
InitCache ==
    /\ rating \in CBTables(1)
    /\ movie_genre \in SUBSET ({1} \X Genres)
    /\ user_recommendations \in SUBSET StoredRows
    /\ user_id = 0
    /\ pc = "idle"
    /\ outcome = "running"
    /\ calls = 0
    /\ movie_ids = <<>>
    /\ user_ratings = <<>>
    /\ genre_matrix = <<>>
    /\ user_preference = [num |-> <<>>, den |-> 1]
    /\ cache_hit = FALSE
    /\ recommendation_probs = <<>>
    /\ top_movie_indices = <<>>
    /\ unrated_movie_ids = <<>>
    /\ top_movie_ids = <<>>
    /\ top_movie_titles = <<>>
    /\ CFIdle
    /\ StressIdle

NextCache ==
    \/ StartTest
    \/ GetUserData
    \/ CalcPreference
    \/ GenerateRecommendation
    \/ SelectTop
    \/ ChangeRatings
    \/ CloseConnection

SpecCache == InitCache /\ [][NextCache]_vars

(* calculate_user_preference on its own: every rating vector of at most     *)
(* MaxRated scores from OverRange below 0 to OverRange above 5, every binary *)
(* matrix of that many rows                                                  *)
RawScores == (ClipLo - OverRange)..(ClipHi + OverRange)
RawVectors == UNION {[1..n -> RawScores] : n \in 0..MaxRated}
BinaryMatrices(n) == [1..n -> [1..NumGenres -> {0, 1}]]

InitPref ==
    /\ user_ratings \in RawVectors
    /\ genre_matrix \in BinaryMatrices(Len(user_ratings))
    /\ rating = <<>>
    /\ movie_genre = {}
    /\ user_recommendations = {}
    /\ user_id = 0
    /\ pc = "pref"
    /\ outcome = "running"
    /\ calls = 0
    /\ movie_ids = <<>>
    /\ user_preference = [num |-> <<>>, den |-> 1]
    /\ cache_hit = FALSE
    /\ recommendation_probs = <<>>
    /\ top_movie_indices = <<>>
    /\ unrated_movie_ids = <<>>
    /\ top_movie_ids = <<>>
    /\ top_movie_titles = <<>>
    /\ CFIdle
    /\ StressIdle

NextPref == CalcPreference

SpecPref == InitPref /\ [][NextPref]_vars

(* the softmax step on its own: generate_recommendation called on an empty  *)
(* cache with a binary matrix of 1..MaxRated rows and a preference vector   *)
(* whose entries are 0, 1 or LargeScore, of either sign                     *)
PrefValues == {0 - LargeScore, 0 - 1, 0, 1, LargeScore}

InitSoftmax ==
    /\ \E n \in 1..MaxRated : genre_matrix \in BinaryMatrices(n)
    /\ user_preference \in [num : [1..NumGenres -> PrefValues], den : {1}]
    /\ user_id = 1
    /\ pc = "generate"
    /\ outcome = "running"
    /\ calls = 1
    /\ rating = <<>>
    /\ movie_genre = {}
    /\ user_recommendations = {}
    /\ movie_ids = <<>>
    /\ user_ratings = <<>>
    /\ cache_hit = FALSE
    /\ recommendation_probs = <<>>
    /\ top_movie_indices = <<>>
    /\ unrated_movie_ids = <<>>
    /\ top_movie_ids = <<>>
    /\ top_movie_titles = <<>>
    /\ CFIdle
    /\ StressIdle

NextSoftmax == GenerateRecommendation

SpecSoftmax == InitSoftmax /\ [][NextSoftmax]_vars

(* stress_test(con, user_id), Test 1, lines 273-292.  num_movies_list is     *)
(* [100, 500, 1000, 5000] in the source; the sizes are scaled down, the      *)
(* number of iterations is kept                                              *)
num_movies_list == <<1, 2, 3, 4>>

(* lines 277-281: cursor.execute("SELECT mov_id FROM movie LIMIT ?"); sqlite3 *)
(* raises ProgrammingError for any operation on a closed connection          *)
StressQueryMovies ==
    /\ pc = "stress_query"
    /\ IF con_open
       THEN /\ movie_ids' = Prefix(MovieTable, num_movies_list[num_movies_idx])
            /\ pc' = "stress_inputs"
            /\ UNCHANGED outcome
       ELSE /\ outcome' = "ProgrammingError"
            /\ pc' = "done"
            /\ UNCHANGED movie_ids
    /\ UNCHANGED <<rating, user_id, movie_genre, user_recommendations, calls,
                   user_ratings, genre_matrix, user_preference, cache_hit,
                   recommendation_probs, top_movie_indices, unrated_movie_ids,
                   top_movie_ids, top_movie_titles>>
    /\ UNCHANGED cfvars
    /\ UNCHANGED stvars

(* lines 284-285: np.random.randint(0, 2, (num_movies, n)) and np.random.rand(n), *)
(* entries of the preference in [0, 1); generate_recommendation is called next    *)
StressInputs ==
    /\ pc = "stress_inputs"
    /\ genre_matrix' \in BinaryMatrices(num_movies_list[num_movies_idx])
    /\ user_preference' \in [num : [1..NumGenres -> 0..1], den : {2}]
    /\ pc' = "generate"
    /\ UNCHANGED <<rating, user_id, outcome, movie_genre, user_recommendations, calls,
                   movie_ids, user_ratings, cache_hit, recommendation_probs,
                   top_movie_indices, unrated_movie_ids, top_movie_ids,
                   top_movie_titles>>
    /\ UNCHANGED cfvars
    /\ UNCHANGED stvars

(* line 292: con.close() inside the for loop, then the next num_movies *)
StressClose ==
    /\ pc = "select"
    /\ num_movies_idx > 0
    /\ con_open' = FALSE
    /\ IF num_movies_idx < Len(num_movies_list)
       THEN /\ num_movies_idx' = num_movies_idx + 1
            /\ pc' = "stress_query"
       ELSE /\ pc' = "stress_test2"
            /\ UNCHANGED num_movies_idx
    /\ UNCHANGED <<rating, user_id, outcome, cbvars>>
    /\ UNCHANGED cfvars

(* stress_test called with an open connection *)
InitStress ==
    /\ con_open = TRUE
    /\ num_movies_idx = 1
    /\ pc = "stress_query"
    /\ user_id \in 1..NumUsers
    /\ user_recommendations \in SUBSET StoredRows
    /\ rating = <<>>
    /\ movie_genre = {}
    /\ outcome = "running"
    /\ calls = 0
    /\ movie_ids = <<>>
    /\ user_ratings = <<>>
    /\ genre_matrix = <<>>
    /\ user_preference = [num |-> <<>>, den |-> 1]
    /\ cache_hit = FALSE
    /\ recommendation_probs = <<>>
    /\ top_movie_indices = <<>>
    /\ unrated_movie_ids = <<>>
    /\ top_movie_ids = <<>>
    /\ top_movie_titles = <<>>
    /\ CFIdle

NextStress ==
    \/ StressQueryMovies
    \/ StressInputs
    \/ GenerateRecommendation
    \/ StressClose

SpecStress == InitStress /\ [][NextStress]_vars

-----------------------------------------------------------------------------
(* Properties of collab_filter_rec.py *)

(* the movies for which user u has a row in the rating table *)
RecordedBy(t, u) == {t[i][2] : i \in {j \in 1..Len(t) : t[j][1] = u}}

(* the recorded score of (u, m), for a table without repeated pairs *)
RecordedScore(t, u, m) ==
    (t[CHOOSE i \in 1..Len(t) : t[i][1] = u /\ t[i][2] = m])[3]

LoopRunning == pc \in {"user_loop", "item_loop", "display"}
Finished == pc = "done" /\ outcome \in {"recommended", "no_recommendations"}

(* C1: the recommended set never holds more than 5 items, in user mode and in *)
(* item mode alike.                                                            *)
C1_AtMostFive == Cardinality(recommended_movies) <= TopN

(* C2: the recommended set never holds a movie for which the query user has a *)
(* recorded rating.                                                            *)
C2_NeverRecordedRating ==
    recommended_movies \cap RecordedBy(rating, user_id) = {}

(* C7: a movie the query user rated with score 0 is treated as rated: once the *)
(* script has computed the user's rated set, every movie with a recorded       *)
(* rating of the user, score 0 included, belongs to it.                        *)
C7_ZeroScoreIsRated ==
    LoopRunning =>
        RecordedBy(rating, user_id) \subseteq
            (IF cf_type = "user" THEN user_rated_movies ELSE Range(rated_movies))

(* C6: once the matrix is built, its rows are exactly the distinct users and   *)
(* its columns exactly the distinct movies of the rating table, the cell of a  *)
(* rated pair is that rating, and every other cell is 0.                       *)
C6_MatrixCells ==
    (pc # "load" /\ outcome # "ValueError_pivot") =>
        /\ Index(user_item_matrix) = {rating[i][1] : i \in 1..Len(rating)}
        /\ \A u \in Index(user_item_matrix) :
              DOMAIN user_item_matrix[u] = {rating[i][2] : i \in 1..Len(rating)}
        /\ \A i \in 1..Len(rating) :
              user_item_matrix[rating[i][1]][rating[i][2]] = rating[i][3]
        /\ \A u \in Index(user_item_matrix) :
              \A m \in DOMAIN user_item_matrix[u] :
                  m \notin RecordedBy(rating, u) => user_item_matrix[u][m] = 0

(* a matrix with a rated cell, a cell rated 0 and a cell without a rating *)
C6_Witness ==
    /\ pc \in {"user", "item"}
    /\ \E u, v, w \in Index(user_item_matrix) : \E m, n, k \in Columns(user_item_matrix) :
          /\ m \in RecordedBy(rating, u) /\ user_item_matrix[u][m] > 0
          /\ n \in RecordedBy(rating, v) /\ user_item_matrix[v][n] = 0
          /\ k \notin RecordedBy(rating, w) /\ user_item_matrix[w][k] = 0

(* the candidates of the running loop and their similarity to what they are    *)
(* compared with                                                               *)
Candidates ==
    IF cf_type = "user" THEN Index(user_item_matrix) ELSE Columns(user_item_matrix)
CandidateSim ==
    IF cf_type = "user"
    THEN UserSimColumn(user_item_matrix, user_id)
    ELSE ItemSimColumn(user_item_matrix, rated_movies[rated_idx])
SamePass == visited \subseteq visited' /\ visited' # visited

(* what the candidates visited so far must have contributed: in user mode the  *)
(* movies a visited neighbour rated positively, in item mode the visited       *)
(* movies, in both cases those without a recorded rating of the query user     *)
Offered ==
    IF cf_type = "user"
    THEN UNION {PositiveColumns(user_item_matrix, v) : v \in visited \ {user_id}}
    ELSE visited
Exhausted ==
    IF cf_type = "user"
    THEN visited = Index(user_item_matrix)
    ELSE \/ rated_movies = <<>>
         \/ rated_idx = Len(rated_movies) /\ visited = Columns(user_item_matrix)

(* C5: in both modes a candidate is visited only while the result set holds    *)
(* fewer than 5 movies, no candidate visited later in a pass is more similar   *)
(* than one visited earlier, visiting the query user itself adds nothing, the  *)
(* movies offered by the visited candidates that the query user has no rating  *)
(* for are in the result set, and the loop ends only at 5 or with every        *)
(* candidate visited.                                                          *)
C5_VisitOrder ==
    [][ /\ (LoopRunning /\ SamePass) =>
              /\ ~CutoffReached(recommended_movies)
              /\ \A c \in visited' \ visited : \A d \in visited :
                    SimLeq(CandidateSim[c], CandidateSim[d])
              /\ (cf_type = "user" /\ visited' \ visited = {user_id}) =>
                    recommended_movies' = recommended_movies
        /\ LoopRunning' =>
              /\ (Offered \ RecordedBy(rating, user_id))' \subseteq recommended_movies'
              /\ pc' = "display" => (CutoffReached(recommended_movies) \/ Exhausted)'
      ]_vars

(* item mode stopped at 5 results with a candidate left, after visiting        *)
(* candidates of different similarity                                          *)
C5_Witness ==
    /\ pc = "display" /\ cf_type = "item"
    /\ Cardinality(recommended_movies) = TopN
    /\ visited # Columns(user_item_matrix)
    /\ \E c, d \in visited : ~SimLeq(CandidateSim[c], CandidateSim[d])

-----------------------------------------------------------------------------
(* Properties of content_based_rec.py *)

TestReturned == pc = "idle" /\ calls > 0

(* C3: test() never returns a movie the query user has rated, and the list    *)
(* its top positions select from is exactly the movies the user has no rating *)
(* for.                                                                        *)
C3_NeverReturnsRated ==
    TestReturned =>
        /\ Range(top_movie_titles) \cap RecordedBy(rating, user_id) = {}
        /\ Range(unrated_movie_ids) = Movies \ RecordedBy(rating, user_id)

(* the dot product of a movie's own genre row with the preference vector, as *)
(* an exact quotient                                                          *)
OwnScore(m) ==
    <<SumSeq([j \in 1..Len(GenreTable) |->
                 IF <<m, GenreTable[j]>> \in movie_genre
                 THEN user_preference.num[j] ELSE 0]),
      user_preference.den>>
FracEq(a, b) == a[1] * b[2] = b[1] * a[2]

(* C4: on a computed (not cached) result, position i of the score vector and  *)
(* position i of the candidate list are the same movie: there is one score    *)
(* per candidate, it is the dot product of that candidate's own genre row     *)
(* with the preference vector, and the movies returned are candidates with    *)
(* the highest scores.                                                         *)
C4_ScoresBelongToCandidates ==
    (TestReturned /\ ~cache_hit) =>
        /\ Len(recommendation_probs) = Len(unrated_movie_ids)
        /\ \A i \in DOMAIN recommendation_probs : i \in DOMAIN unrated_movie_ids =>
              FracEq(recommendation_probs[i].arg, OwnScore(unrated_movie_ids[i]))
        /\ \A m \in Range(top_movie_ids) :
              \A c \in Range(unrated_movie_ids) \ Range(top_movie_ids) :
                  FracLeq(OwnScore(c), OwnScore(m))

(* C10: after generate_recommendation computed scores on a cache miss, the    *)
(* table user_recommendations holds entries for that user, one per computed   *)
(* score.                                                                      *)
C10_CacheFilledOnMiss ==
    (pc = "select" /\ ~cache_hit /\ recommendation_probs # <<>>) =>
        Cardinality(StoredFor(user_recommendations, user_id))
            = Len(recommendation_probs)

PrefDone == pc = "generate"
ClampedSum == SumSeq([i \in 1..Len(user_ratings) |-> clip(user_ratings[i])])
IsZeroVector(p) == p.den > 0 /\ \A j \in DOMAIN p.num : p.num[j] = 0
RowIsZero(i) == \A j \in 1..Len(GenreTable) : genre_matrix[i][j] = 0

(* C8 as stated: the preference vector is all-zero exactly when the sum of    *)
(* the clamped ratings is 0.                                                   *)
C8_ZeroExactlyWhenSumZero ==
    PrefDone => (IsZeroVector(user_preference) <=> ClampedSum = 0)

(* C8 as amended: the preference vector is all-zero whenever the clamped sum  *)
(* is 0; when the sum is positive it is all-zero exactly when every item with *)
(* a positive clamped rating has an all-zero feature row.                     *)
C8_ZeroWhenNothingWeighted ==
    PrefDone =>
        /\ ClampedSum = 0 => IsZeroVector(user_preference)
        /\ ClampedSum > 0 =>
              (IsZeroVector(user_preference) <=>
                  \A i \in 1..Len(user_ratings) :
                      clip(user_ratings[i]) > 0 => RowIsZero(i))

(* a positive clamped sum with an all-zero preference vector *)
C8_Witness ==
    PrefDone /\ ClampedSum > 0 /\ IsZeroVector(user_preference)

(* the clamped ratings of the items that have feature j, summed *)
FeatureWeight(j) ==
    LET having == {i \in 1..Len(user_ratings) : genre_matrix[i][j] = 1}
    IN  SumOver(having, [i \in having |->
            IF user_ratings[i] < 0 THEN 0
            ELSE IF user_ratings[i] > 5 THEN 5 ELSE user_ratings[i]])

(* C9: with a positive clamped sum, component j of the preference vector is   *)
(* the clamped ratings of the items having feature j, summed, over the sum of *)
(* all clamped ratings; ratings {5, 3} on items of genre X only and genre Y   *)
(* only give (5/8, 3/8).                                                       *)
C9_PreferenceComponents ==
    PrefDone =>
        /\ ClampedSum > 0 =>
              /\ user_preference.den > 0
              /\ \A j \in 1..Len(GenreTable) :
                    user_preference.num[j] * ClampedSum
                        = FeatureWeight(j) * user_preference.den
        /\ (user_ratings = <<5, 3>> /\ genre_matrix = <<<<1, 0>>, <<0, 1>>>>) =>
              /\ user_preference.num[1] * 8 = 5 * user_preference.den
              /\ user_preference.num[2] * 8 = 3 * user_preference.den

(* the scenario of the claim, computed *)
C9_Witness ==
    PrefDone /\ user_ratings = <<5, 3>> /\ genre_matrix = <<<<1, 0>>, <<0, 1>>>>

(* C11: on a cache hit generate_recommendation returns the rec_score values  *)
(* of the user's stored entries, as read (ORDER BY rec_score DESC LIMIT 5),   *)
(* unchanged.                                                                  *)
C11_HitReturnsStoredScores ==
    (pc = "select" /\ cache_hit) =>
        \E stored \in CacheLookup(user_recommendations, user_id) :
            recommendation_probs =
                [i \in 1..Len(stored) |-> [arg |-> <<stored[i][3], 1>>, over |-> <<>>]]

(* C12: a user's stored entries are never changed or removed, and every call *)
(* of generate_recommendation for a user who has stored entries takes the     *)
(* cache-hit branch, whatever rating rows were inserted or changed since.     *)
C12_CacheNeverRefreshed ==
    [][/\ \A u \in 1..NumUsers :
              StoredFor(user_recommendations, u) # {} =>
                  StoredFor(user_recommendations', u)
                      = StoredFor(user_recommendations, u)
       /\ (/\ pc = "generate"
           /\ pc' = "select"
           /\ StoredFor(user_recommendations, user_id) # {}) =>
              (cache_hit' /\ user_recommendations' = user_recommendations)]_vars

(* a second call that hits the cache after two rows of the query user were *)
(* inserted or changed                                                      *)
C12_Witness ==
    /\ pc = "select"
    /\ calls = MaxCalls
    /\ cache_hit
    /\ Len(UserRows(rating, user_id)) = 2

(* a query has ended: the collaborative-filtering script is done, or test() *)
(* has returned or raised                                                   *)
QueryEnded ==
    \/ cf_type \in {"user", "item"} /\ pc = "done"
    \/ cf_type = "none" /\ (TestReturned \/ (pc = "done" /\ outcome = "IndexError"))

FailureOutcomes == {"KeyError", "ValueError_cosine", "ValueError_pivot", "IndexError"}

(* C13: in every pipeline a query for a user who has no row in the rating    *)
(* table ends in a failure outcome, never in the normal return that a found  *)
(* user with nothing to recommend gets.                                       *)
C13_AbsentUserFails ==
    (QueryEnded /\ user_id \notin RowUsers(rating)) => outcome \in FailureOutcomes

(* the query user has a row in the interaction matrix and it is all zero *)
ZeroRow ==
    /\ user_id \in Index(user_item_matrix)
    /\ \A m \in Columns(user_item_matrix) : user_item_matrix[user_id][m] = 0

(* C14: for a query user whose interaction row is all zero, both modes of   *)
(* the similarity ranker finish without an error and recommend nothing.     *)
C14_ZeroRowGivesEmpty ==
    (cf_type \in {"user", "item"} /\ pc = "done" /\ ZeroRow) =>
        (outcome = "no_recommendations" /\ recommended_movies = {})

(* the query user has a row and a recorded rating for every column *)
RatedEverything ==
    /\ user_id \in Index(user_item_matrix)
    /\ Columns(user_item_matrix) \subseteq RecordedBy(rating, user_id)

(* C15: when the query user is present and has rated every item of the     *)
(* matrix, both modes end normally with the empty recommended set, the     *)
(* "No recommendations available" outcome.                                  *)
C15_RatedEverythingGivesEmpty ==
    (cf_type \in {"user", "item"} /\ pc = "done" /\ RatedEverything) =>
        (outcome = "no_recommendations" /\ recommended_movies = {})

(* C16: building the interaction matrix never ends in an error, whatever the *)
(* rating rows are: an empty table gives the empty matrix, and a (user,       *)
(* movie) pair that occurs in more than one row is accepted.                  *)
C16_MatrixBuildNeverFails ==
    (cf_type \in {"user", "item"} /\ pc # "load") =>
        /\ outcome # "ValueError_pivot"
        /\ rating = <<>> => Index(user_item_matrix) = {}

(* the run that takes candidates of equal similarity in ascending identifier *)
(* order: one of the orders the sort may leave them in                       *)
LeastNext(key, done) ==
    CHOOSE c \in NextInDescending(key, done) :
        \A d \in NextInDescending(key, done) : c <= d

RECURSIVE UserRun(_, _, _, _, _)
UserRun(M, q, rated, done, rec) ==
    IF done = Index(M) THEN rec
    ELSE LET c == LeastNext(UserSimColumn(M, q), done)
             rec2 == IF c = q THEN rec ELSE rec \cup unrated_movies(M, c, rated)
         IN  IF c # q /\ CutoffReached(rec2) THEN rec2
             ELSE UserRun(M, q, rated, done \cup {c}, rec2)

RECURSIVE ItemRun(_, _, _, _, _)
ItemRun(M, rated, idx, done, rec) ==
    IF idx > Len(rated) THEN rec
    ELSE LET c == LeastNext(ItemSimColumn(M, rated[idx]), done)
             rec2 == IF c \notin Range(rated) THEN rec \cup {c} ELSE rec
         IN  IF CutoffReached(rec2) THEN rec2
             ELSE IF done \cup {c} = Columns(M)
                  THEN ItemRun(M, rated, idx + 1, {}, rec2)
                  ELSE ItemRun(M, rated, idx, done \cup {c}, rec2)

ComputedScores == pc = "select" /\ ~cache_hit /\ recommendation_probs # <<>>

(* C18: the softmax step subtracts the largest raw score first, so every     *)
(* argument of the exponential is <= 0 and at least one is exactly 0.        *)
C18_ArgumentsShiftedByMax ==
    ComputedScores =>
        /\ \A i \in DOMAIN recommendation_probs : recommendation_probs[i].arg[1] <= 0
        /\ \E i \in DOMAIN recommendation_probs : recommendation_probs[i].arg[1] = 0

(* C19: for every non-empty raw score vector, large and negative scores     *)
(* included, the computed vector sums to 1: every entry is a number, and    *)
(* the entries are the exponentials over their own finite, non-zero sum.    *)
C19_SoftmaxSumsToOne ==
    ComputedScores =>
        \A i \in DOMAIN recommendation_probs :
            /\ recommendation_probs[i].over =
                   [k \in DOMAIN recommendation_probs |-> recommendation_probs[k].arg]
            /\ ExpSum(recommendation_probs[i].over) = "finite"
            /\ Quotient(recommendation_probs[i]) # "nan"

ItemLoopRan == cf_type = "item" /\ rated_movies # <<>>
ItemUnrated == Columns(user_item_matrix) \ Range(rated_movies)
FirstRatedSim(m) == item_similarity(user_item_matrix, rated_movies[1], m)

(* C20: in item mode, when the user has a positively rated movie, the        *)
(* finished run recommends exactly the min(5, number of unrated items)       *)
(* unrated items that come first in the descending-similarity list of the    *)
(* first rated movie, similarity 0 included; once the loop has moved to a    *)
(* later rated movie the set is already all the unrated items and stays so.  *)
C20_FirstRatedMovieDecides ==
    /\ (ItemLoopRan /\ pc \in {"display", "done"}) =>
          /\ recommended_movies \subseteq ItemUnrated
          /\ Cardinality(recommended_movies)
                 = IF Cardinality(ItemUnrated) < TopN
                   THEN Cardinality(ItemUnrated) ELSE TopN
          /\ \A a \in recommended_movies : \A b \in ItemUnrated \ recommended_movies :
                 SimLeq(FirstRatedSim(b), FirstRatedSim(a))
    /\ (ItemLoopRan /\ rated_idx > 1) => recommended_movies = ItemUnrated

(* a finished run that went through two or more rated movies and recommends *)
(* something                                                                 *)
C20_Witness ==
    /\ ItemLoopRan
    /\ pc = "done"
    /\ Len(rated_movies) >= 2
    /\ rated_idx = Len(rated_movies)
    /\ recommended_movies # {}

(* test() has reached the id lookup of line 238: normally or with IndexError *)
LookupDone == TestReturned \/ (pc = "done" /\ outcome = "IndexError")

(* C21: in test() every position chosen from the score vector is a position *)
(* of the candidate-id list: the score vector is never longer than that     *)
(* list and the id lookup never goes out of range.                          *)
C21_IndicesInRange ==
    /\ outcome # "IndexError"
    /\ LookupDone =>
          /\ Len(recommendation_probs) <= Len(unrated_movie_ids)
          /\ \A k \in DOMAIN top_movie_indices :
                 top_movie_indices[k] \in DOMAIN unrated_movie_ids

(* the positions at which the next step is a database operation *)
AtDatabaseOperation ==
    pc \in {"get_data", "generate", "select", "stress_query"} /\ ~(pc = "select" /\ num_movies_idx > 0)

(* C22: no database operation is issued on a connection that has been      *)
(* closed, on any path of main or of stress_test: whenever the next step is *)
(* a database operation the connection is open, and no run ends with the    *)
(* error of an operation on a closed connection.                            *)
C22_NoOperationAfterClose ==
    /\ AtDatabaseOperation => con_open
    /\ outcome # "ProgrammingError"

=============================================================================
